---- MODULE Spec2Model ----
(***************************************************************************)
(* Stream5 ICMP pseudo-session of snort3                                   *)
(* (src/network_inspectors/stream5/stream_icmp.cc): the unreachable        *)
(* correlator ProcessIcmpUnreach, the dispatch IcmpSession::process,       *)
(* IcmpSession::update_direction, the teardown IcmpSessionCleanup and the  *)
(* statistics icmp_sum, icmp_stats and icmp_reset_stats.                   *)
(*                                                                         *)
(* An address stands for the four ip32 words of an sfip_t, read as one     *)
(* number; COPY4 copies the four words, so it copies that number.          *)
(* session_flags and session_state are bit fields; a bit field is the set  *)
(* of the names of its set bits, and |= is set union.                      *)
(***************************************************************************)
EXTENDS Integers, FiniteSets, Sequences, TLC

\* ------------------------------------------------------------------------
\* Bounds of the model
\* ------------------------------------------------------------------------
\* the number of Flows the session table holds at most
MaxFlows == 1
\* the number of packet threads
NumWorkers == 2
\* the number of teardowns of a run
MaxTeardowns == 3
\* the number of icmp_sum calls of a thread between two resets
MaxMerges == 2

\* ------------------------------------------------------------------------
\* Program constants
\* ------------------------------------------------------------------------
IPPROTO_ICMP == 1
IPPROTO_TCP == 6
IPPROTO_UDP == 17
IPPROTO_GRE == 47
ICMP_DEST_UNREACH == 3
ICMP_ECHO == 8
ICMP_TIME_EXCEEDED == 11

SSNFLAG_DROP_CLIENT == "SSNFLAG_DROP_CLIENT"
SSNFLAG_DROP_SERVER == "SSNFLAG_DROP_SERVER"
STREAM5_STATE_UNREACH == "STREAM5_STATE_UNREACH"
SSN_DIR_NONE == "SSN_DIR_NONE"
SSN_DIR_SENDER == "SSN_DIR_SENDER"
SSN_DIR_RESPONDER == "SSN_DIR_RESPONDER"
SSN_DIR_BOTH == "SSN_DIR_BOTH"
SSNFLAG_PRUNED == "SSNFLAG_PRUNED"
SSNFLAG_TIMEDOUT == "SSNFLAG_TIMEDOUT"
SESSION_CLOSED_PRUNED == "SESSION_CLOSED_PRUNED"
SESSION_CLOSED_TIMEDOUT == "SESSION_CLOSED_TIMEDOUT"
SESSION_CLOSED_NORMALLY == "SESSION_CLOSED_NORMALLY"

\* ------------------------------------------------------------------------
\* Value domains
\* ------------------------------------------------------------------------
\* two addresses, A < B
Addrs == {1, 2}
\* uint16_t ports: a low one and the largest one
Ports == {80, 65535}
\* the VLAN id of a tagged packet
VlanIds == {1}
Protocols == {IPPROTO_ICMP, IPPROTO_TCP, IPPROTO_UDP, IPPROTO_GRE}
Dirs == {SSN_DIR_NONE, SSN_DIR_SENDER, SSN_DIR_RESPONDER, SSN_DIR_BOTH}
\* the packet threads, each with its own THREAD_LOCAL icmpStats
Workers == 1..NumWorkers
\* the PegCount fields of a SessionStats
SessionPegs == {"prunes", "released"}
CloseReasons ==
    {SESSION_CLOSED_PRUNED, SESSION_CLOSED_TIMEDOUT, SESSION_CLOSED_NORMALLY}
\* p->vh: no header (NULL) or the header with its VLAN id
NoVlan == <<>>
VlanHeaders == {<<v>> : v \in VlanIds}

\* A decoded packet: the ICMP type, the embedded original header (orig_iph
\* and the orig_* fields decoded from it) and the VLAN header of the packet.
\* Destination-unreachable messages with every embedded header:
UnreachPackets ==
    [type : {ICMP_DEST_UNREACH}, orig_iph : {TRUE},
     proto : Protocols, src : Addrs, orig_sp : Ports, dst : Addrs,
     orig_dp : Ports, vh : {NoVlan} \cup VlanHeaders]

\* time-exceeded messages, which embed a header too (here a TCP one):
ExceededPackets ==
    [type : {ICMP_TIME_EXCEEDED}, orig_iph : {TRUE},
     proto : {IPPROTO_TCP}, src : Addrs, orig_sp : Ports, dst : Addrs,
     orig_dp : Ports, vh : {NoVlan}]

\* and messages without an embedded header:
PlainPackets ==
    [type : {ICMP_DEST_UNREACH, ICMP_ECHO}, orig_iph : {FALSE},
     proto : {0}, src : {0}, orig_sp : {0}, dst : {0},
     orig_dp : {0}, vh : {NoVlan} \cup VlanHeaders]

Packets == UnreachPackets \cup ExceededPackets \cup PlainPackets

NoPacket ==
    [type |-> 0, orig_iph |-> FALSE, proto |-> 0, src |-> 0, orig_sp |-> 0,
     dst |-> 0, orig_dp |-> 0, vh |-> NoVlan]

VARIABLES
    table,      \* the session table: FlowKey -> Flow (session_flags, session_state)
    flow,       \* the Flow that owns the IcmpSession: client_ip, server_ip,
                \* direction, session_flags, session_state, and the key the
                \* table holds it under (NoKey when the table does not)
    ssn,        \* the IcmpSession: echo_count, ssn_time
    icmpStats,  \* the THREAD_LOCAL SessionStats of every packet thread
    gicmpStats, \* the cumulative SessionStats
    sfBase,     \* the session-close accounting: closes reported per reason
    merged,     \* per thread, its icmp_sum calls since its last icmp_reset_stats
    teardowns,  \* per thread, its IcmpSessionCleanup calls since its last
                \* icmp_reset_stats
    resets,     \* whether icmp_reset_stats has been called
    last        \* the last call: its arguments, what it looked up, the calls
                \* it made to collaborators, what it returned

vars == <<table, flow, ssn, icmpStats, gicmpStats, sfBase, merged, teardowns, resets, last>>

\* ------------------------------------------------------------------------
\* Collaborators that are not part of stream_icmp.cc
\* ------------------------------------------------------------------------
\* sfip_fast_lt6: the total order of addresses
sfip_fast_lt6(a, b) == a < b

\* IP_EQUALITY: the two addresses are the same address
IP_EQUALITY(a, b) == a = b

\* VTH_VLAN: the VLAN id of a VLAN header
VTH_VLAN(vh) == vh[1]

\* The canonical FlowKey of the flow table (spec section 3): the endpoint with
\* the smaller address is the low one, and of two endpoints with the same
\* address the one with the smaller port.
Canonicalize(proto, ip_a, port_a, ip_b, port_b, vlan) ==
    LET a_first == ip_a < ip_b \/ (ip_a = ip_b /\ port_a <= port_b)
    IN  [protocol |-> proto,
         ip_l |-> IF a_first THEN ip_a ELSE ip_b,
         port_l |-> IF a_first THEN port_a ELSE port_b,
         ip_h |-> IF a_first THEN ip_b ELSE ip_a,
         port_h |-> IF a_first THEN port_b ELSE port_a,
         vlan_tag |-> vlan]

\* The key of a Flow that the session table does not hold
NoKey == Canonicalize(0, 0, 0, 0, 0, 0)

\* Stream::get_session: the keys of the records the table holds under skey
get_session(t, skey) == IF skey \in DOMAIN t THEN {skey} ELSE {}

\* The protocols that have a flow table (spec section 6: "keyed by
\* protocol-specific table")
TableProtocols == {IPPROTO_TCP, IPPROTO_UDP, IPPROTO_ICMP}

\* A Flow as the session table creates it
NewFlow == [session_flags |-> {}, session_state |-> {}]

\* The Flow of an ICMP pseudo-session between two endpoints
IcmpFlow(client, server, direction) ==
    [client_ip |-> client, server_ip |-> server, direction |-> direction,
     session_flags |-> {}, session_state |-> {}, key |-> NoKey]

\* The Flow f of the IcmpSession as the table t has it: when the table holds
\* f under its key, the table's record and f are one Flow object
OwnFlow(t, f) ==
    IF f.key \in DOMAIN t
    THEN [f EXCEPT !.session_flags = t[f.key].session_flags,
                   !.session_state = t[f.key].session_state]
    ELSE f

\* The table t after a write to the Flow f of the IcmpSession
Stored(t, f) ==
    IF f.key \in DOMAIN t
    THEN [t EXCEPT ![f.key] = [session_flags |-> f.session_flags,
                               session_state |-> f.session_state]]
    ELSE t

\* A zeroed SessionStats
ZeroStats == [f \in SessionPegs |-> 0]

\* sfBase before any close is reported
NoCloses == [r \in CloseReasons |-> 0]

\* ------------------------------------------------------------------------
\* ProcessIcmpUnreach
\* ------------------------------------------------------------------------
\* int16_t reading of a uint16_t
Signed16(x) == IF x >= 32768 THEN x - 65536 ELSE x

\* BuildKey whose last branch leaves the ports in packet order
BuildKey_PortsNotSwapped(p) ==
    LET vlan == IF p.vh # NoVlan THEN VTH_VLAN(p.vh) ELSE 0
    IN  IF sfip_fast_lt6(p.src, p.dst)
        THEN [protocol |-> p.proto, ip_l |-> p.src, port_l |-> p.orig_sp,
              ip_h |-> p.dst, port_h |-> p.orig_dp, vlan_tag |-> vlan]
        ELSE IF IP_EQUALITY(p.src, p.dst)
        THEN [protocol |-> p.proto, ip_l |-> p.src,
              port_l |-> IF p.orig_sp < p.orig_dp THEN p.orig_sp ELSE p.orig_dp,
              ip_h |-> p.src,
              port_h |-> IF p.orig_sp < p.orig_dp THEN p.orig_dp ELSE p.orig_sp,
              vlan_tag |-> vlan]
        ELSE [protocol |-> p.proto, ip_l |-> p.dst, port_l |-> p.orig_sp,
              ip_h |-> p.src, port_h |-> p.orig_dp, vlan_tag |-> vlan]

\* BuildKey whose sport and dport are int16_t
BuildKey_SignedPorts(p) ==
    LET vlan == IF p.vh # NoVlan THEN VTH_VLAN(p.vh) ELSE 0
        sp_first == Signed16(p.orig_sp) < Signed16(p.orig_dp)
    IN  IF sfip_fast_lt6(p.src, p.dst)
        THEN [protocol |-> p.proto, ip_l |-> p.src, port_l |-> p.orig_sp,
              ip_h |-> p.dst, port_h |-> p.orig_dp, vlan_tag |-> vlan]
        ELSE IF IP_EQUALITY(p.src, p.dst)
        THEN [protocol |-> p.proto, ip_l |-> p.src,
              port_l |-> IF sp_first THEN p.orig_sp ELSE p.orig_dp,
              ip_h |-> p.src,
              port_h |-> IF sp_first THEN p.orig_dp ELSE p.orig_sp,
              vlan_tag |-> vlan]
        ELSE [protocol |-> p.proto, ip_l |-> p.dst, port_l |-> p.orig_dp,
              ip_h |-> p.src, port_h |-> p.orig_sp, vlan_tag |-> vlan]

\* BuildKey that orders the ports by their numbers in every branch
BuildKey_PortsSorted(p) ==
    LET vlan == IF p.vh # NoVlan THEN VTH_VLAN(p.vh) ELSE 0
        lo == IF p.orig_sp < p.orig_dp THEN p.orig_sp ELSE p.orig_dp
        hi == IF p.orig_sp < p.orig_dp THEN p.orig_dp ELSE p.orig_sp
    IN  [protocol |-> p.proto,
         ip_l |-> IF sfip_fast_lt6(p.src, p.dst) THEN p.src ELSE p.dst,
         port_l |-> lo,
         ip_h |-> IF sfip_fast_lt6(p.src, p.dst) THEN p.dst ELSE p.src,
         port_h |-> hi,
         vlan_tag |-> vlan]

\* BuildKey that never reads p->vh
BuildKey_NoVlan(p) ==
    IF sfip_fast_lt6(p.src, p.dst)
    THEN [protocol |-> p.proto, ip_l |-> p.src, port_l |-> p.orig_sp,
          ip_h |-> p.dst, port_h |-> p.orig_dp, vlan_tag |-> 0]
    ELSE IF IP_EQUALITY(p.src, p.dst)
    THEN [protocol |-> p.proto, ip_l |-> p.src,
          port_l |-> IF p.orig_sp < p.orig_dp THEN p.orig_sp ELSE p.orig_dp,
          ip_h |-> p.src,
          port_h |-> IF p.orig_sp < p.orig_dp THEN p.orig_dp ELSE p.orig_sp,
          vlan_tag |-> 0]
    ELSE [protocol |-> p.proto, ip_l |-> p.dst, port_l |-> p.orig_dp,
          ip_h |-> p.src, port_h |-> p.orig_sp, vlan_tag |-> 0]

\* lines 137-177: the key built from the embedded header and the outer VLAN
BuildKey(p) ==
    LET sport == p.orig_sp
        dport == p.orig_dp
        src == p.src
        dst == p.dst
        vlan == IF p.vh # NoVlan THEN VTH_VLAN(p.vh) ELSE 0
    IN  IF sfip_fast_lt6(src, dst)
        THEN [protocol |-> p.proto, ip_l |-> src, port_l |-> sport,
              ip_h |-> dst, port_h |-> dport, vlan_tag |-> vlan]
        ELSE IF IP_EQUALITY(src, dst)
        THEN [protocol |-> p.proto, ip_l |-> src,
              port_l |-> IF sport < dport THEN sport ELSE dport,
              ip_h |-> src,
              port_h |-> IF sport < dport THEN dport ELSE sport,
              vlan_tag |-> vlan]
        ELSE [protocol |-> p.proto, ip_l |-> dst, port_l |-> dport,
              ip_h |-> src, port_h |-> sport, vlan_tag |-> vlan]

\* A switch whose default case looks a session up as well
LookupProtocols_All == Protocols

\* lines 179-193: the protocols whose case looks a session up
LookupProtocols == {IPPROTO_TCP, IPPROTO_UDP, IPPROTO_ICMP}

\* The marking with = in place of |=
MarkDead_Assign(f) ==
    [f EXCEPT !.session_flags = {SSNFLAG_DROP_CLIENT, SSNFLAG_DROP_SERVER},
              !.session_state = {STREAM5_STATE_UNREACH}]

\* lines 195-203: the found Flow is marked dead
MarkDead(f) ==
    [f EXCEPT !.session_flags = @ \cup {SSNFLAG_DROP_CLIENT, SSNFLAG_DROP_SERVER},
              !.session_state = @ \cup {STREAM5_STATE_UNREACH}]

\* What a call that never reaches line 137 leaves: no key, no lookup
NoResult(t) ==
    [status |-> 0, table |-> t, called |-> FALSE, skey |-> {}, lookups |-> <<>>]

\* ProcessIcmpUnreach that reports a missing embedded header as an error
ProcessIcmpUnreach_NoHeaderIsError(p, t) ==
    IF ~p.orig_iph
    THEN [NoResult(t) EXCEPT !.called = TRUE, !.status = -1]
    ELSE LET skey == BuildKey(p)
             looks == skey.protocol \in LookupProtocols
             found == IF looks THEN get_session(t, skey) ELSE {}
         IN  [status |-> 0,
              table |-> [k \in DOMAIN t |->
                            IF k \in found THEN MarkDead(t[k]) ELSE t[k]],
              called |-> TRUE,
              skey |-> {skey},
              lookups |-> IF looks THEN <<skey>> ELSE <<>>]

\* ProcessIcmpUnreach that reports a missing session as an error
ProcessIcmpUnreach_MissIsError(p, t) ==
    IF ~p.orig_iph
    THEN [NoResult(t) EXCEPT !.called = TRUE]
    ELSE LET skey == BuildKey(p)
             looks == skey.protocol \in LookupProtocols
             found == IF looks THEN get_session(t, skey) ELSE {}
         IN  [status |-> IF found = {} THEN -1 ELSE 0,
              table |-> [k \in DOMAIN t |->
                            IF k \in found THEN MarkDead(t[k]) ELSE t[k]],
              called |-> TRUE,
              skey |-> {skey},
              lookups |-> IF looks THEN <<skey>> ELSE <<>>]

\* ProcessIcmpUnreach that marks the Flows of every VLAN
ProcessIcmpUnreach_AnyVlan(p, t) ==
    IF ~p.orig_iph
    THEN [NoResult(t) EXCEPT !.called = TRUE]
    ELSE LET skey == BuildKey(p)
             looks == skey.protocol \in LookupProtocols
             found == IF looks
                      THEN {k \in DOMAIN t : [k EXCEPT !.vlan_tag = skey.vlan_tag] = skey}
                      ELSE {}
         IN  [status |-> 0,
              table |-> [k \in DOMAIN t |->
                            IF k \in found THEN MarkDead(t[k]) ELSE t[k]],
              called |-> TRUE,
              skey |-> {skey},
              lookups |-> IF looks THEN <<skey>> ELSE <<>>]

\* The whole function: the returned status, the table it leaves, the key it
\* built (none before line 137) and the keys it passed to get_session.
ProcessIcmpUnreach(p, t) ==
    IF ~p.orig_iph
    THEN [NoResult(t) EXCEPT !.called = TRUE]
    ELSE LET skey == BuildKey(p)
             looks == skey.protocol \in LookupProtocols
             found == IF looks THEN get_session(t, skey) ELSE {}
         IN  [status |-> 0,
              table |-> [k \in DOMAIN t |->
                            IF k \in found THEN MarkDead(t[k]) ELSE t[k]],
              called |-> TRUE,
              skey |-> {skey},
              lookups |-> IF looks THEN <<skey>> ELSE <<>>]

\* ------------------------------------------------------------------------
\* IcmpSession
\* ------------------------------------------------------------------------
\* IcmpSession::setup
setup == [echo_count |-> 0, ssn_time |-> [tv_sec |-> 0, tv_usec |-> 0]]

\* A switch that handles every ICMP error message as an unreachable
Dispatch_AnyError(p, t) ==
    IF p.type \in {ICMP_DEST_UNREACH, ICMP_TIME_EXCEEDED}
    THEN ProcessIcmpUnreach(p, t)
    ELSE NoResult(t)

\* IcmpSession::process, lines 270-280: the switch over the ICMP type
Dispatch(p, t) ==
    IF p.type = ICMP_DEST_UNREACH
    THEN ProcessIcmpUnreach(p, t)
    ELSE NoResult(t)

\* No call is running
NoCall ==
    [op |-> "none", worker |-> 0, p |-> NoPacket, dir |-> SSN_DIR_NONE, ip |-> 0,
     called |-> FALSE, skey |-> {}, lookups |-> <<>>, flags |-> {},
     events |-> <<>>,
     shown |-> ZeroStats, name |-> "", reset_prunes |-> 0, status |-> 0]

\* IcmpSession::process
process(p) ==
    /\ last = NoCall
    /\ LET r == Dispatch(p, table)
       IN  /\ table' = r.table
           /\ flow' = OwnFlow(r.table, flow)
           /\ last' = [NoCall EXCEPT !.op = "process", !.p = p,
                                     !.called = r.called, !.skey = r.skey,
                                     !.lookups = r.lookups, !.status = r.status]
    /\ UNCHANGED <<ssn, icmpStats, gicmpStats, sfBase, merged, teardowns, resets>>

\* update_direction without the responder branch
DirectionSet_SenderOnly(f, dir, ip) ==
    IP_EQUALITY(f.client_ip, ip)
        /\ dir = SSN_DIR_SENDER /\ f.direction = SSN_DIR_SENDER

\* update_direction that compares the role only, not the direction flag
DirectionSet_RoleOnly(f, dir, ip) ==
    IF IP_EQUALITY(f.client_ip, ip)
    THEN dir = SSN_DIR_SENDER
    ELSE IF IP_EQUALITY(f.server_ip, ip)
    THEN dir = SSN_DIR_RESPONDER
    ELSE FALSE

\* IcmpSession::update_direction, lines 290-305: the direction is already set
DirectionSet(f, dir, ip) ==
    IF IP_EQUALITY(f.client_ip, ip)
    THEN dir = SSN_DIR_SENDER /\ f.direction = SSN_DIR_SENDER
    ELSE IF IP_EQUALITY(f.server_ip, ip)
    THEN dir = SSN_DIR_RESPONDER /\ f.direction = SSN_DIR_RESPONDER
    ELSE FALSE

\* The swap without tmpIp: the responder gets the sender just overwritten
SwapIps_NoTmp(f) == [f EXCEPT !.client_ip = f.server_ip]

\* IcmpSession::update_direction, lines 307-310: the swap
SwapIps(f) == [f EXCEPT !.client_ip = f.server_ip, !.server_ip = f.client_ip]

\* IcmpSession::update_direction, lines 290-310: the Flow after the call
DirectionUpdate(f, dir, ip) ==
    IF DirectionSet(f, dir, ip) THEN f ELSE SwapIps(f)

\* IcmpSession::update_direction
update_direction(dir, ip) ==
    /\ last = NoCall
    /\ flow' = DirectionUpdate(flow, dir, ip)
    /\ last' = [NoCall EXCEPT !.op = "update_direction", !.dir = dir, !.ip = ip]
    /\ UNCHANGED <<table, ssn, icmpStats, gicmpStats, sfBase, merged, teardowns, resets>>

\* The classification with the two tests exchanged
CloseReason_TimedoutFirst(flags) ==
    IF SSNFLAG_TIMEDOUT \in flags THEN SESSION_CLOSED_TIMEDOUT
    ELSE IF SSNFLAG_PRUNED \in flags THEN SESSION_CLOSED_PRUNED
    ELSE SESSION_CLOSED_NORMALLY

\* IcmpSessionCleanup, lines 101-112: the close reason of the session flags
CloseReason(flags) ==
    IF SSNFLAG_PRUNED \in flags THEN SESSION_CLOSED_PRUNED
    ELSE IF SSNFLAG_TIMEDOUT \in flags THEN SESSION_CLOSED_TIMEDOUT
    ELSE SESSION_CLOSED_NORMALLY

\* CloseStreamSession: the accounting counts one more close of that reason
CloseStreamSession(base, reason) == [base EXCEPT ![reason] = @ + 1]

\* Flow::clear: the transient fields of the Flow are cleared
FlowClear(f) == [f EXCEPT !.session_flags = {}, !.session_state = {}]

\* The closes reported so far
TotalClosed(base) ==
    base[SESSION_CLOSED_PRUNED] + base[SESSION_CLOSED_TIMEDOUT]
        + base[SESSION_CLOSED_NORMALLY]

\* The teardown that clears the Flow before it classifies the close
IcmpSessionCleanup_ClearFirst(f, base, g, l) ==
    LET cleared == FlowClear(f)
        reason == CloseReason(cleared.session_flags)
    IN  [flow |-> cleared,
         sfBase |-> CloseStreamSession(base, reason),
         gicmpStats |-> g,
         icmpStats |-> [l EXCEPT !.released = @ + 1],
         events |-> <<"clear", reason, "released">>]

\* The teardown that counts the release in the cumulative set
IcmpSessionCleanup_GlobalReleased(f, base, g, l) ==
    LET reason == CloseReason(f.session_flags)
    IN  [flow |-> FlowClear(f),
         sfBase |-> CloseStreamSession(base, reason),
         gicmpStats |-> [g EXCEPT !.released = @ + 1],
         icmpStats |-> l,
         events |-> <<reason, "clear", "released">>]

\* IcmpSessionCleanup on the Flow f, with the accounting base, the cumulative
\* set g and the calling thread's set l: the report of the close, then
\* ssn->clear(), then icmpStats.released++
IcmpSessionCleanup(f, base, g, l) ==
    LET reason == CloseReason(f.session_flags)
        reported == CloseStreamSession(base, reason)
        cleared == FlowClear(f)
        counted == [l EXCEPT !.released = @ + 1]
    IN  [flow |-> cleared,
         sfBase |-> reported,
         gicmpStats |-> g,
         icmpStats |-> counted,
         events |-> <<reason, "clear", "released">>]

\* IcmpSession::clear, called by the packet thread w
clear(w) ==
    /\ last = NoCall
    /\ TotalClosed(sfBase) < MaxTeardowns
    /\ LET r == IcmpSessionCleanup(flow, sfBase, gicmpStats, icmpStats[w])
       IN  /\ flow' = r.flow
           /\ table' = Stored(table, r.flow)
           /\ sfBase' = r.sfBase
           /\ gicmpStats' = r.gicmpStats
           /\ icmpStats' = [icmpStats EXCEPT ![w] = r.icmpStats]
           /\ last' = [NoCall EXCEPT !.op = "clear", !.worker = w,
                                     !.flags = flow.session_flags,
                                     !.events = r.events]
    /\ teardowns' = [teardowns EXCEPT ![w] = @ + 1]
    /\ UNCHANGED <<ssn, merged, resets>>

\* The flow control decides that the Flow is pruned or has timed out
Expire(flag) ==
    /\ last = NoCall
    /\ flag \notin flow.session_flags
    /\ flow' = [flow EXCEPT !.session_flags = @ \cup {flag}]
    /\ table' = Stored(table, flow')
    /\ UNCHANGED <<ssn, icmpStats, gicmpStats, sfBase, merged, teardowns,
                   resets, last>>

\* sum_stats(gpegs, tpegs, n): what the call leaves in the two arrays it got
\* pointers to. Every field of tpegs is added to the same field of gpegs;
\* tpegs is read only
sum_stats(gpegs, tpegs) ==
    [gpegs |-> [f \in SessionPegs |-> gpegs[f] + tpegs[f]],
     tpegs |-> tpegs]

\* The merge with the two arguments of sum_stats exchanged
IcmpSum_SwappedArgs(g, l) ==
    LET r == sum_stats(l, g)
    IN  [gicmpStats |-> r.tpegs, icmpStats |-> r.gpegs]

\* The merge that copies the thread's set over the cumulative set
IcmpSum_Assign(g, l) == [gicmpStats |-> l, icmpStats |-> l]

\* The merge that zeroes the thread's set after folding it
IcmpSum_ClearsLocal(g, l) ==
    [gicmpStats |-> sum_stats(g, l).gpegs, icmpStats |-> ZeroStats]

\* icmp_sum with the cumulative set g and the calling thread's set l: the one
\* call sum_stats(&gicmpStats, &icmpStats, session_peg_count); both sets are
\* what that call leaves in them
IcmpSum(g, l) ==
    LET r == sum_stats(g, l)
    IN  [gicmpStats |-> r.gpegs, icmpStats |-> r.tpegs]

\* icmp_sum, called by the packet thread w
icmp_sum(w) ==
    /\ last = NoCall
    /\ merged[w] < MaxMerges
    /\ LET r == IcmpSum(gicmpStats, icmpStats[w])
       IN  /\ gicmpStats' = r.gicmpStats
           /\ icmpStats' = [icmpStats EXCEPT ![w] = r.icmpStats]
    /\ merged' = [merged EXCEPT ![w] = @ + 1]
    /\ last' = [NoCall EXCEPT !.op = "icmp_sum", !.worker = w]
    /\ UNCHANGED <<table, flow, ssn, sfBase, teardowns, resets>>

\* icmp_stats with the cumulative set g and the calling thread's set l:
\* show_stats gets the cumulative set and the name of the protocol
IcmpStats(g, l) ==
    [gicmpStats |-> g, icmpStats |-> l, shown |-> g, name |-> "stream5_icmp"]

\* icmp_stats, called by the packet thread w
icmp_stats(w) ==
    /\ last = NoCall
    /\ LET r == IcmpStats(gicmpStats, icmpStats[w])
       IN  /\ gicmpStats' = r.gicmpStats
           /\ icmpStats' = [icmpStats EXCEPT ![w] = r.icmpStats]
           /\ last' = [NoCall EXCEPT !.op = "icmp_stats", !.worker = w,
                                     !.shown = r.shown, !.name = r.name]
    /\ UNCHANGED <<table, flow, ssn, sfBase, merged, teardowns, resets>>

\* The reset that zeroes the cumulative set as well
IcmpResetStats_ResetsCumulative(g, l) ==
    [gicmpStats |-> ZeroStats, icmpStats |-> ZeroStats,
     reset_prunes |-> IPPROTO_ICMP]

\* icmp_reset_stats with the cumulative set g and the calling thread's set l:
\* the memset of icmpStats, then flow_con->reset_prunes(IPPROTO_ICMP)
IcmpResetStats(g, l) ==
    [gicmpStats |-> g, icmpStats |-> ZeroStats, reset_prunes |-> IPPROTO_ICMP]

\* icmp_reset_stats, called by the packet thread w
icmp_reset_stats(w) ==
    /\ last = NoCall
    /\ LET r == IcmpResetStats(gicmpStats, icmpStats[w])
       IN  /\ gicmpStats' = r.gicmpStats
           /\ icmpStats' = [icmpStats EXCEPT ![w] = r.icmpStats]
           /\ last' = [NoCall EXCEPT !.op = "icmp_reset_stats", !.worker = w,
                                     !.reset_prunes = r.reset_prunes]
    /\ merged' = [merged EXCEPT ![w] = 0]
    /\ teardowns' = [teardowns EXCEPT ![w] = 0]
    /\ resets' = TRUE
    /\ UNCHANGED <<table, flow, ssn, sfBase>>

\* The call returns to the flow manager, which takes the status
Return ==
    /\ last # NoCall
    /\ last' = NoCall
    /\ UNCHANGED <<table, flow, ssn, icmpStats, gicmpStats, sfBase, merged, teardowns, resets>>

\* ------------------------------------------------------------------------
\* The session table's owner creates a Flow under the canonical key of a
\* live packet (never done by stream_icmp.cc)
\* ------------------------------------------------------------------------
CreateFlow(proto, ip_a, port_a, ip_b, port_b, vlan) ==
    LET key == Canonicalize(proto, ip_a, port_a, ip_b, port_b, vlan)
    IN  /\ last = NoCall
        /\ Cardinality(DOMAIN table) < MaxFlows
        /\ key \notin DOMAIN table
        /\ table' = [k \in DOMAIN table \cup {key} |->
                        IF k = key THEN NewFlow ELSE table[k]]
        /\ UNCHANGED <<flow, ssn, icmpStats, gicmpStats, sfBase, merged, teardowns,
                       resets, last>>

\* The session table creates the record of the Flow of the IcmpSession: an
\* ICMP Flow between the two endpoints of that Flow
CreateOwnFlow(port_a, port_b, vlan) ==
    LET key == Canonicalize(IPPROTO_ICMP, flow.client_ip, port_a,
                            flow.server_ip, port_b, vlan)
    IN  /\ last = NoCall
        /\ flow.key = NoKey
        /\ Cardinality(DOMAIN table) < MaxFlows
        /\ key \notin DOMAIN table
        /\ flow' = [flow EXCEPT !.key = key]
        /\ table' = [k \in DOMAIN table \cup {key} |->
                        IF k = key
                        THEN [session_flags |-> flow.session_flags,
                              session_state |-> flow.session_state]
                        ELSE table[k]]
        /\ UNCHANGED <<ssn, icmpStats, gicmpStats, sfBase, merged, teardowns,
                       resets, last>>

\* ------------------------------------------------------------------------
\* Specifications
\* ------------------------------------------------------------------------
\* After construction: an empty table, a fresh IcmpSession, zeroed counters
Init ==
    /\ table = <<>>
    /\ flow = IcmpFlow(1, 2, SSN_DIR_SENDER)
    /\ ssn = setup
    /\ icmpStats = [w \in Workers |-> ZeroStats]
    /\ gicmpStats = ZeroStats
    /\ sfBase = NoCloses
    /\ merged = [w \in Workers |-> 0]
    /\ teardowns = [w \in Workers |-> 0]
    /\ resets = FALSE
    /\ last = NoCall

Process == \E p \in Packets : process(p)

Create ==
    \E proto \in TableProtocols, a \in Addrs, x \in Ports, b \in Addrs, y \in Ports,
       v \in {0} \cup VlanIds : CreateFlow(proto, a, x, b, y, v)

CreateOwn ==
    \E x \in Ports, y \in Ports, v \in {0} \cup VlanIds : CreateOwnFlow(x, y, v)

Next == Process \/ Create \/ CreateOwn \/ Return

\* The unreachable correlator on a session table that fills up
Spec == Init /\ [][Next]_vars

\* The Flow of an ICMP pseudo-session between any two endpoints
InitDir ==
    /\ table = <<>>
    /\ flow \in {IcmpFlow(c, s, d) : c \in Addrs, s \in Addrs, d \in Dirs}
    /\ ssn = setup
    /\ icmpStats = [w \in Workers |-> ZeroStats]
    /\ gicmpStats = ZeroStats
    /\ sfBase = NoCloses
    /\ merged = [w \in Workers |-> 0]
    /\ teardowns = [w \in Workers |-> 0]
    /\ resets = FALSE
    /\ last = NoCall

UpdateDirection == \E dir \in Dirs, ip \in Addrs : update_direction(dir, ip)

NextDir == UpdateDirection \/ Return

\* update_direction on the Flow of an ICMP pseudo-session
SpecDir == InitDir /\ [][NextDir]_vars

\* The keys of the Flows a session table can hold
FlowKeys ==
    {Canonicalize(proto, a, x, b, y, v) :
        proto \in TableProtocols, a \in Addrs, x \in Ports, b \in Addrs,
        y \in Ports, v \in {0} \cup VlanIds}

\* The flags the flow control may have set on a Flow
ExpiredFlags == SUBSET {SSNFLAG_PRUNED, SSNFLAG_TIMEDOUT}

\* A Flow the flow control has set those flags on
Expiring(f, flags) == [f EXCEPT !.session_flags = @ \cup flags]

\* The Flows of the IcmpSession that the table may hold under the key k: an
\* ICMP key between the two endpoints of the Flow
OwnFlows(k, flags) ==
    IF k.protocol = IPPROTO_ICMP /\ {k.ip_l, k.ip_h} = {1, 2}
    THEN {[Expiring(IcmpFlow(1, 2, SSN_DIR_SENDER), flags) EXCEPT !.key = k]}
    ELSE {}

\* A table that holds one Flow, which may be pruned or timed out; the Flow of
\* the IcmpSession is that Flow of the table, or another Flow that is
\* unmarked, or marked and timed out
InitMark ==
    /\ \E k \in FlowKeys, flags \in ExpiredFlags :
          /\ table = [j \in {k} |-> Expiring(NewFlow, flags)]
          /\ flow \in {IcmpFlow(1, 2, SSN_DIR_SENDER),
                       Expiring(MarkDead(IcmpFlow(1, 2, SSN_DIR_SENDER)),
                                {SSNFLAG_TIMEDOUT})}
                          \cup OwnFlows(k, flags)
    /\ ssn = setup
    /\ icmpStats = [w \in Workers |-> ZeroStats]
    /\ gicmpStats = ZeroStats
    /\ sfBase = NoCloses
    /\ merged = [w \in Workers |-> 0]
    /\ teardowns = [w \in Workers |-> 0]
    /\ resets = FALSE
    /\ last = NoCall

\* A table that holds any two Flows, not yet marked; the Flow of the
\* IcmpSession is one of the two, or another Flow
InitFrame ==
    /\ \E j \in FlowKeys, k \in FlowKeys :
          /\ j # k
          /\ table = [i \in {j, k} |-> NewFlow]
          /\ flow \in {IcmpFlow(1, 2, SSN_DIR_SENDER)} \cup OwnFlows(j, {})
    /\ ssn = setup
    /\ icmpStats = [w \in Workers |-> ZeroStats]
    /\ gicmpStats = ZeroStats
    /\ sfBase = NoCloses
    /\ merged = [w \in Workers |-> 0]
    /\ teardowns = [w \in Workers |-> 0]
    /\ resets = FALSE
    /\ last = NoCall

NextFrame == Process \/ Return

\* process on a table in which the Flow a packet is about is not alone
SpecFrame == InitFrame /\ [][NextFrame]_vars

NextMark == Process \/ UpdateDirection \/ Return

\* process and update_direction on Flows that are pruned, timed out or marked
SpecMark == InitMark /\ [][NextMark]_vars

Teardown == \E w \in Workers : clear(w)

Expired == \E flag \in {SSNFLAG_PRUNED, SSNFLAG_TIMEDOUT} : Expire(flag)

Sum == \E w \in Workers : icmp_sum(w)

Stats == \E w \in Workers : icmp_stats(w)

ResetStats == \E w \in Workers : icmp_reset_stats(w)

ProcessPlain == \E p \in {q \in PlainPackets : q.vh = NoVlan} : process(p)

NextTeardown == Expired \/ Teardown \/ ResetStats \/ Return

\* The packet threads tearing down sessions the flow control has expired
SpecTeardown == Init /\ [][NextTeardown]_vars

NextStats == Teardown \/ Sum \/ Stats \/ ResetStats \/ ProcessPlain \/ Return

\* The packet threads processing packets, tearing sessions down and handling
\* their statistics
SpecStats == Init /\ [][NextStats]_vars

\* ------------------------------------------------------------------------
\* Properties
\* ------------------------------------------------------------------------
\* The packet of the last call is an unreachable with an embedded header
UnreachWithHeader ==
    /\ last.op = "process"
    /\ last.p.type = ICMP_DEST_UNREACH
    /\ last.p.orig_iph

\* The embedded header of the opposite direction
Reversed(p) ==
    [p EXCEPT !.src = p.dst, !.dst = p.src,
              !.orig_sp = p.orig_dp, !.orig_dp = p.orig_sp]

\* The VLAN tag of the packet, 0 when it is untagged
OuterVlan(p) == IF p.vh = NoVlan THEN 0 ELSE p.vh[1]

\* The canonical key of the flow the embedded header belongs to
CanonKey(p) ==
    Canonicalize(p.proto, p.src, p.orig_sp, p.dst, p.orig_dp, OuterVlan(p))

Marked(f) ==
    /\ {SSNFLAG_DROP_CLIENT, SSNFLAG_DROP_SERVER} \subseteq f.session_flags
    /\ STREAM5_STATE_UNREACH \in f.session_state

\* C1 - Canonicalization symmetry: for distinct addresses the key built from
\* (src=A:x, dst=B:y) is field for field the key built from (src=B:y, dst=A:x),
\* for every protocol and VLAN tag.
CanonicalizationSymmetry ==
    (UnreachWithHeader /\ last.p.src # last.p.dst)
        => last.skey = {BuildKey(Reversed(last.p))}

\* The larger address was the source and the ports differ
WitnessSymmetry ==
    /\ UnreachWithHeader
    /\ last.p.src > last.p.dst
    /\ last.p.orig_sp # last.p.orig_dp
    /\ last.skey = {BuildKey(Reversed(last.p))}

\* C2 - Self-pair ordering: with equal addresses ip_l = ip_h = the address,
\* port_l is the smaller and port_h the larger of the two ports as unsigned
\* 16-bit numbers, whichever was the source port.
SelfPairOrdering ==
    (UnreachWithHeader /\ last.p.src = last.p.dst)
        => \E k \in last.skey :
              /\ k.ip_l = last.p.src
              /\ k.ip_h = last.p.src
              /\ k.port_l <= k.port_h
              /\ {k.port_l, k.port_h} = {last.p.orig_sp, last.p.orig_dp}

\* Equal addresses, the source port 65535 above the destination port 80
WitnessSelfPair ==
    /\ UnreachWithHeader
    /\ last.p.src = last.p.dst
    /\ last.p.orig_sp > 32767
    /\ last.p.orig_dp < last.p.orig_sp
    /\ \E k \in last.skey : k.port_l = last.p.orig_dp /\ k.port_h = last.p.orig_sp

\* C3 - Canonical ordering with port pairing: with unequal addresses ip_l is
\* the smaller address, ip_h the larger, and each port stays with its address
\* whatever the order of the ports.
CanonicalOrdering ==
    (UnreachWithHeader /\ last.p.src # last.p.dst)
        => \E k \in last.skey :
              /\ k.ip_l < k.ip_h
              /\ \/ /\ k.ip_l = last.p.src /\ k.port_l = last.p.orig_sp
                    /\ k.ip_h = last.p.dst /\ k.port_h = last.p.orig_dp
                 \/ /\ k.ip_l = last.p.dst /\ k.port_l = last.p.orig_dp
                    /\ k.ip_h = last.p.src /\ k.port_h = last.p.orig_sp

\* The smaller address came with the larger port
WitnessPortPairing ==
    /\ UnreachWithHeader
    /\ \E k \in last.skey : k.ip_l < k.ip_h /\ k.port_l > k.port_h

\* C4 - Successful correlation: if the table holds the Flow under the
\* canonical key of the embedded TCP, UDP or ICMP header (in either direction)
\* and the packet's VLAN tag, the call looks that Flow up and leaves it with
\* dropped-client, dropped-server and the unreachable marker set.
SuccessfulCorrelation ==
    (/\ UnreachWithHeader
     /\ last.p.proto \in {IPPROTO_TCP, IPPROTO_UDP, IPPROTO_ICMP}
     /\ CanonKey(last.p) \in DOMAIN table)
        => /\ last.lookups = <<CanonKey(last.p)>>
           /\ Marked(table[CanonKey(last.p)])

\* A tagged packet whose header runs from the larger to the smaller address
\* found its Flow
WitnessCorrelation ==
    /\ UnreachWithHeader
    /\ last.p.vh # NoVlan
    /\ last.p.src > last.p.dst
    /\ CanonKey(last.p) \in DOMAIN table
    /\ Marked(table[CanonKey(last.p)])

\* C5 - No-op on missing embedded header: an unreachable without an embedded
\* header looks nothing up, leaves every Flow as it was and returns 0.
NoOpOnMissingHeader ==
    [][(/\ last'.op = "process"
        /\ last'.p.type = ICMP_DEST_UNREACH
        /\ ~last'.p.orig_iph)
          => /\ table' = table
             /\ flow' = flow
             /\ last'.lookups = <<>>
             /\ last'.status = 0]_vars

\* Such a packet was processed while the table held a Flow
WitnessMissingHeader ==
    /\ last.op = "process"
    /\ last.p.type = ICMP_DEST_UNREACH
    /\ ~last.p.orig_iph
    /\ last.called
    /\ DOMAIN table # {}
    /\ last.status = 0

\* C6 - Unknown embedded protocol: an embedded protocol other than TCP, UDP
\* and ICMP leads to no lookup, no change of any Flow and status 0.
UnknownProtocolNoOp ==
    [][(/\ last'.op = "process"
        /\ last'.p.type = ICMP_DEST_UNREACH
        /\ last'.p.orig_iph
        /\ last'.p.proto \notin {IPPROTO_TCP, IPPROTO_UDP, IPPROTO_ICMP})
          => /\ table' = table
             /\ flow' = flow
             /\ last'.lookups = <<>>
             /\ last'.status = 0]_vars

\* A GRE header whose addresses, ports and VLAN are those of a TCP Flow of the
\* table, which stays unmarked
WitnessUnknownProtocol ==
    /\ UnreachWithHeader
    /\ last.p.proto = IPPROTO_GRE
    /\ last.lookups = <<>>
    /\ \E k \in DOMAIN table :
          /\ k = [CanonKey(last.p) EXCEPT !.protocol = IPPROTO_TCP]
          /\ ~Marked(table[k])

\* C7 - No matching flow: every call of process returns 0, and a call whose
\* lookup finds no session changes no Flow.
NoMatchNeutral ==
    [][last'.op = "process"
          => /\ last'.status = 0
             /\ (last'.lookups # <<>> /\ last'.lookups[1] \notin DOMAIN table)
                   => (table' = table /\ flow' = flow)]_vars

\* A lookup missed while the table held another Flow
WitnessNoMatch ==
    /\ UnreachWithHeader
    /\ last.lookups # <<>>
    /\ last.lookups[1] \notin DOMAIN table
    /\ DOMAIN table # {}
    /\ last.status = 0

\* C8 - Frame of correlation: process leaves the set of keys of the table as
\* it was, changes no Flow but the one under the built key, and leaves
\* echo_count and ssn_time of the IcmpSession as they were.
FrameOfCorrelation ==
    [][last'.op = "process"
          => /\ DOMAIN table' = DOMAIN table
             /\ \A k \in DOMAIN table :
                   table'[k] # table[k] => last'.skey = {k}
             /\ flow' # flow => last'.skey = {flow.key}
             /\ ssn' = ssn]_vars

\* The fields in which two keys differ
KeyDiff(j, k) == {fld \in DOMAIN j : j[fld] # k[fld]}

\* process has marked the Flow under the built key while the table holds a
\* second Flow, whose key differs from the built key in the VLAN tag only and
\* which stays unmarked
WitnessFrame ==
    /\ UnreachWithHeader
    /\ last.lookups # <<>>
    /\ CanonKey(last.p) \in DOMAIN table
    /\ Marked(table[CanonKey(last.p)])
    /\ \E k \in DOMAIN table :
          /\ KeyDiff(k, CanonKey(last.p)) = {"vlan_tag"}
          /\ table[k] = NewFlow

\* C9 - Process dispatch: process calls the unreachable correlator, and
\* returns its status, exactly for the destination-unreachable type; for any
\* other type it changes no Flow, no field of the IcmpSession and no counter
\* and returns 0.
ProcessDispatch ==
    [][last'.op = "process"
          => /\ last'.called <=> (last'.p.type = ICMP_DEST_UNREACH)
             /\ last'.p.type = ICMP_DEST_UNREACH
                   => /\ last'.status = ProcessIcmpUnreach(last'.p, table).status
                      /\ table' = ProcessIcmpUnreach(last'.p, table).table
             /\ last'.p.type # ICMP_DEST_UNREACH
                   => /\ last'.status = 0
                      /\ last'.lookups = <<>>
                      /\ UNCHANGED <<table, flow, ssn, icmpStats, gicmpStats, sfBase, merged, teardowns, resets>>]_vars

\* A time-exceeded message whose embedded header is that of a Flow of the
\* table, which stays unmarked
WitnessDispatch ==
    /\ last.op = "process"
    /\ last.p.type = ICMP_TIME_EXCEEDED
    /\ last.p.orig_iph
    /\ ~last.called
    /\ CanonKey(last.p) \in DOMAIN table
    /\ ~Marked(table[CanonKey(last.p)])

\* C10 - Direction idempotence: update_direction changes nothing when the
\* address is the recorded sender, the role is sender and the direction flag
\* is sender, nor when the address is the recorded responder, the role is
\* responder and the direction flag is responder.
DirectionIdempotence ==
    [][(/\ last'.op = "update_direction"
        /\ \/ /\ last'.ip = flow.client_ip
              /\ last'.dir = SSN_DIR_SENDER
              /\ flow.direction = SSN_DIR_SENDER
           \/ /\ last'.ip = flow.server_ip
              /\ last'.dir = SSN_DIR_RESPONDER
              /\ flow.direction = SSN_DIR_RESPONDER)
          => flow' = flow]_vars

\* The responder case between two different endpoints
WitnessDirectionIdempotence ==
    /\ last.op = "update_direction"
    /\ last.dir = SSN_DIR_RESPONDER
    /\ last.ip = flow.server_ip
    /\ flow.direction = SSN_DIR_RESPONDER
    /\ flow.client_ip # flow.server_ip

\* The call is in one of the two cases in which update_direction changes
\* nothing: the address, the role and the direction flag agree
NoChangeCase(f, dir, ip) ==
    \/ /\ ip = f.client_ip
       /\ dir = SSN_DIR_SENDER
       /\ f.direction = SSN_DIR_SENDER
    \/ /\ ip = f.server_ip
       /\ dir = SSN_DIR_RESPONDER
       /\ f.direction = SSN_DIR_RESPONDER

\* C11 - Direction swap: outside the two no-change cases update_direction
\* exchanges the recorded sender and responder addresses and leaves the
\* direction flag and every other field of the Flow as they were; every call
\* keeps the pair of endpoints, in one of its two orders.
DirectionSwap ==
    [][last'.op = "update_direction"
          => /\ ~NoChangeCase(flow, last'.dir, last'.ip)
                  => /\ flow'.client_ip = flow.server_ip
                     /\ flow'.server_ip = flow.client_ip
                     /\ flow'.direction = flow.direction
                     /\ flow'.session_flags = flow.session_flags
                     /\ flow'.session_state = flow.session_state
                     /\ DOMAIN flow' = DOMAIN flow
             /\ <<flow'.client_ip, flow'.server_ip>>
                    \in {<<flow.client_ip, flow.server_ip>>,
                         <<flow.server_ip, flow.client_ip>>}
             /\ <<table', ssn'>> = <<table, ssn>>]_vars

\* sender = A and responder = B before update_direction(responder, A),
\* sender = B and responder = A after it
WitnessDirectionSwap ==
    /\ last.op = "update_direction"
    /\ last.dir = SSN_DIR_RESPONDER
    /\ last.ip = flow.server_ip
    /\ flow.client_ip # flow.server_ip
    /\ flow.direction = SSN_DIR_SENDER

\* The close reasons among the calls the last teardown made
Reported == {i \in DOMAIN last.events : last.events[i] \in CloseReasons}

\* C12 - Teardown precedence: a teardown reports exactly one close reason:
\* pruned whenever the pruned flag is set, also together with timed-out,
\* timed-out when only the timed-out flag is set, normal when neither is set.
TeardownPrecedence ==
    [][last'.op = "clear"
          => LET flags == flow.session_flags
                 reason == IF SSNFLAG_PRUNED \in flags
                           THEN SESSION_CLOSED_PRUNED
                           ELSE IF SSNFLAG_TIMEDOUT \in flags
                           THEN SESSION_CLOSED_TIMEDOUT
                           ELSE SESSION_CLOSED_NORMALLY
             IN  /\ sfBase' = [sfBase EXCEPT ![reason] = @ + 1]
                 /\ Reported' = {1}
                 /\ last'.events[1] = reason]_vars

\* A Flow with both flags set has been closed as pruned
WitnessTeardownPrecedence ==
    /\ last.op = "clear"
    /\ last.flags = {SSNFLAG_PRUNED, SSNFLAG_TIMEDOUT}
    /\ last.events[1] = SESSION_CLOSED_PRUNED
    /\ sfBase[SESSION_CLOSED_PRUNED] = 1
    /\ sfBase[SESSION_CLOSED_TIMEDOUT] = 0

\* C13 - Teardown ordering and accounting: every teardown reports the close
\* reason of the flags as they are before clearing, then clears the transient
\* fields of the Flow, then adds 1 to the released counter of the calling
\* thread; every call counts, so the released counter of a thread is the
\* number of teardown calls it made since its last reset.
TeardownAccounting ==
    /\ \A w \in Workers : icmpStats[w].released = teardowns[w]
    /\ last.op = "clear"
          => /\ last.events
                    = <<SESSION_CLOSED_PRUNED, "clear", "released">>
                  <=> SSNFLAG_PRUNED \in last.flags
             /\ last.events
                    = <<SESSION_CLOSED_TIMEDOUT, "clear", "released">>
                  <=> (last.flags = {SSNFLAG_TIMEDOUT})
             /\ last.events
                    = <<SESSION_CLOSED_NORMALLY, "clear", "released">>
                  <=> (last.flags = {})
             /\ flow.session_flags = {}
             /\ flow.session_state = {}
             /\ icmpStats[last.worker].released >= 1

\* The second teardown a thread makes after its reset, of a Flow that had
\* timed out: the close is reported as timed-out and both calls are counted
WitnessTeardownAccounting ==
    /\ last.op = "clear"
    /\ last.flags = {SSNFLAG_TIMEDOUT}
    /\ last.events[1] = SESSION_CLOSED_TIMEDOUT
    /\ resets
    /\ teardowns[last.worker] = 2
    /\ icmpStats[last.worker].released = 2

\* The sum of the field f over the thread-local sets of the threads ws
RECURSIVE SumOver(_, _, _)
SumOver(ws, stats, f) ==
    IF ws = {} THEN 0
    ELSE LET w == CHOOSE x \in ws : TRUE
         IN  stats[w][f] + SumOver(ws \ {w}, stats, f)

\* C14 as stated - Merge folds every worker: after one merge every field of
\* the cumulative set is its value before the merge plus the sum of that
\* field over the thread-local sets of all threads.
MergeFoldsEveryWorker ==
    [][last'.op = "icmp_sum"
          => \A f \in SessionPegs :
                gicmpStats'[f] = gicmpStats[f] + SumOver(Workers, icmpStats, f)]_vars

\* C14 - Merge folds the calling thread: after one merge every field of the
\* cumulative set is its value before the merge plus that field of the
\* thread-local set of the thread that called it; the sets of the other
\* threads are not folded by that call.
MergeFoldsCaller ==
    [][last'.op = "icmp_sum"
          => \A f \in SessionPegs :
                gicmpStats'[f] = gicmpStats[f] + icmpStats[last'.worker][f]]_vars

\* A thread has merged its one release while another thread holds two
\* releases that the merge did not fold
WitnessMergeFoldsCaller ==
    /\ last.op = "icmp_sum"
    /\ icmpStats[last.worker].released = 1
    /\ gicmpStats.released = 1
    /\ \E v \in Workers \ {last.worker} : icmpStats[v].released = 2

\* The orders in which every thread merges once
Orders ==
    {o \in [1..NumWorkers -> Workers] :
        \A i, j \in 1..NumWorkers : o[i] = o[j] => i = j}

\* The cumulative set after the threads have called icmp_sum in that order
RECURSIVE MergeInOrder(_, _, _)
MergeInOrder(order, g, stats) ==
    IF order = <<>> THEN g
    ELSE LET w == Head(order)
             r == IcmpSum(g, stats[w])
         IN  MergeInOrder(Tail(order), r.gicmpStats,
                          [stats EXCEPT ![w] = r.icmpStats])

\* C15 - Merge is order-independent: whatever the thread-local counters are,
\* merging every thread's counters once gives the same cumulative totals in
\* every order of the threads (the totals of the ascending order).
MergeOrderIndependent ==
    LET ascending == [i \in 1..NumWorkers |-> i]
    IN  \A o \in Orders :
            MergeInOrder(o, gicmpStats, icmpStats)
                = MergeInOrder(ascending, gicmpStats, icmpStats)

\* Two threads with different nonzero released counts, already folded into a
\* cumulative set that is not zero either
WitnessMergeOrderIndependent ==
    /\ last.op = "icmp_sum"
    /\ gicmpStats.released >= 1
    /\ \E v, w \in Workers :
          /\ icmpStats[v].released = 1
          /\ icmpStats[w].released = 2
          /\ merged[v] >= 1
          /\ merged[w] >= 1
          /\ MergeInOrder(<<v, w>>, gicmpStats, icmpStats).released
                = gicmpStats.released + 3

\* C16 - Reset isolation: a reset sets every field of the calling thread's
\* set to zero and asks the flow control to reset its prune counter for ICMP;
\* the cumulative set and the sets of all other threads keep their values.
ResetIsolation ==
    [][last'.op = "icmp_reset_stats"
          => /\ \A f \in SessionPegs : icmpStats'[last'.worker][f] = 0
             /\ \A v \in Workers \ {last'.worker} : icmpStats'[v] = icmpStats[v]
             /\ gicmpStats' = gicmpStats
             /\ last'.reset_prunes = IPPROTO_ICMP]_vars

\* A thread has reset its released count, which was not zero, while the
\* cumulative set and another thread's set hold releases
WitnessResetIsolation ==
    /\ last.op = "icmp_reset_stats"
    /\ icmpStats[last.worker].released = 0
    /\ gicmpStats.released >= 1
    /\ \E v \in Workers \ {last.worker} : icmpStats[v].released >= 1
    /\ TotalClosed(sfBase) > SumOver(Workers, icmpStats, "released")

\* C17 - Counter ownership under interleaving: the set of a thread is
\* changed only by that thread's own teardown and reset, the cumulative set
\* only by a merge; no release is lost: as long as no thread has reset, the
\* released counts of all threads add up to the teardowns performed.
CounterOwnership ==
    [][/\ \A w \in Workers :
             icmpStats'[w] # icmpStats[w]
                 => /\ last'.worker = w
                    /\ last'.op \in {"clear", "icmp_reset_stats"}
       /\ gicmpStats' # gicmpStats => last'.op = "icmp_sum"
       /\ ~resets'
             => SumOver(Workers, icmpStats', "released") = TotalClosed(sfBase')]_vars

\* Without a reset both threads have torn sessions down and merged, and a
\* report has just shown the cumulative set: the three teardowns are all
\* counted in the sets of the threads
WitnessCounterOwnership ==
    /\ last.op = "icmp_stats"
    /\ last.shown = gicmpStats
    /\ ~resets
    /\ gicmpStats.released >= 1
    /\ \A w \in Workers : icmpStats[w].released >= 1 /\ merged[w] >= 1
    /\ TotalClosed(sfBase) = 3
    /\ SumOver(Workers, icmpStats, "released") = 3

\* C20 as stated - Merge is not idempotent: after a thread has merged twice
\* with no reset in between, the cumulative released count exceeds the number
\* of teardowns performed.
MergeTwiceExceedsTeardowns ==
    [][(last'.op = "icmp_sum" /\ merged[last'.worker] >= 1)
          => gicmpStats'.released > TotalClosed(sfBase')]_vars

\* C20 - Merge is not idempotent: a merge never changes a thread-local set,
\* so a second merge of a thread with no reset in between adds its set to the
\* cumulative set again; after it the cumulative released count exceeds the
\* number of teardowns that thread made since its last reset, when the
\* cumulative released count was not zero before the second merge.
MergeNotIdempotent ==
    [][last'.op = "icmp_sum"
          => LET w == last'.worker
             IN  /\ icmpStats' = icmpStats
                 /\ merged[w] >= 1
                       => /\ \A f \in SessionPegs :
                                gicmpStats'[f] = gicmpStats[f] + icmpStats'[w][f]
                          /\ gicmpStats.released > 0
                                => gicmpStats'.released > teardowns'[w]]_vars

\* A thread has merged its one release twice: the cumulative set counts two
\* releases, one teardown was performed
WitnessMergeNotIdempotent ==
    /\ last.op = "icmp_sum"
    /\ merged[last.worker] = 2
    /\ ~resets
    /\ icmpStats[last.worker].released = 1
    /\ gicmpStats.released = 2
    /\ TotalClosed(sfBase) = 1

\* The Flow g is the Flow f after a step that at most marks it
MarkedOnly(f, g) ==
    /\ f.session_flags \subseteq g.session_flags
    /\ g.session_flags \ f.session_flags
          \subseteq {SSNFLAG_DROP_CLIENT, SSNFLAG_DROP_SERVER}
    /\ f.session_state \subseteq g.session_state
    /\ g.session_state \ f.session_state \subseteq {STREAM5_STATE_UNREACH}
    /\ Marked(f) => (g.session_flags = f.session_flags
                       /\ g.session_state = f.session_state)
    /\ CloseReason(g.session_flags) = CloseReason(f.session_flags)
    /\ (/\ Marked(g)
        /\ SSNFLAG_PRUNED \notin g.session_flags
        /\ SSNFLAG_TIMEDOUT \notin g.session_flags)
          => CloseReason(g.session_flags) = SESSION_CLOSED_NORMALLY

\* C18 - Marking is monotone and does not affect the close classification:
\* process adds only the two drop flags and the unreachable marker and
\* removes nothing, a marked Flow stays marked as it is under every later
\* process and update_direction call, the pruned and timed-out flags are
\* untouched, and a marked Flow with neither of them is closed as normal;
\* also when the Flow found is the Flow of the IcmpSession itself.
MarkingMonotone ==
    [][/\ DOMAIN table' = DOMAIN table
       /\ \A k \in DOMAIN table : MarkedOnly(table[k], table'[k])
       /\ MarkedOnly(flow, flow')
       /\ last'.op = "update_direction"
             => /\ table' = table
                /\ flow'.session_flags = flow.session_flags
                /\ flow'.session_state = flow.session_state]_vars

\* An unreachable whose embedded header is that of the Flow of the
\* IcmpSession itself, which had timed out: that Flow carries the two drop
\* flags next to the timed-out flag and is closed as timed-out
WitnessMarkingMonotone ==
    /\ UnreachWithHeader
    /\ last.called
    /\ CanonKey(last.p) \in DOMAIN table
    /\ flow.key = CanonKey(last.p)
    /\ Marked(flow)
    /\ Marked(table[flow.key])
    /\ flow.session_flags
          = {SSNFLAG_DROP_CLIENT, SSNFLAG_DROP_SERVER, SSNFLAG_TIMEDOUT}
    /\ CloseReason(flow.session_flags) = SESSION_CLOSED_TIMEDOUT

====
